---- MODULE Spec2Model ----
(***************************************************************************)
(* FamilyHub secure vault: the PIN-gated secret access controller          *)
(* (lib/secure-vault) and the HTTP handlers of /api/pin and                *)
(* /api/secure-info that call it.                                          *)
(*                                                                         *)
(* Strings the code inspects character by character (user ids, keys,      *)
(* PINs, secret values) are sequences of one-character strings; fixed      *)
(* literals (error messages, tag names) are TLA+ strings.  Every handler   *)
(* is one atomic action: Spec is the sequential behaviour of the vault     *)
(* against a reachable, well-behaved store.                                *)
(* The client state manager (context/AppContext) and its calendar syncs    *)
(* are modelled in SpecSync.                                               *)
(***************************************************************************)
EXTENDS Integers, Sequences, FiniteSets, TLC

VARIABLES
  store,     \* the Key Vault: secret name -> [value, tags]
  now,       \* Date.now(), in milliseconds
  op,        \* the call that ran last: [fn, userId, pin, category, key, faults]
  before,    \* the vault as that call found it
  result,    \* what that call returned, or [throw |-> message]
  trace,     \* the vault-client and hashPin calls it made, in order
  response,  \* the HTTP response, when the call was a route handler
  written,   \* history: (userId, category, key) -> value last passed to saveSecret
  calls,     \* the async calls in flight: where each stands, and its locals
  state      \* the AppState of the client's AppProvider

vars == <<store, now, op, before, result, trace, response, written, calls, state>>

-----------------------------------------------------------------------------
(* Bounds of the model *)

MaxPinLen == 7          \* PIN inputs have at most this many characters
MaxTicks == 3           \* the clock advances at most this many times
TicksPerLockout == 2    \* clock steps per lockout window
NumSalts == 2           \* outcomes of crypto.randomBytes
MaxFaultAt == 5         \* the fault hits one of the first MaxFaultAt vault calls of a handler
MaxCalls == 2           \* verifyUserPin calls each concurrent client makes
MaxEvents == 2          \* addEvent is called while the client holds fewer events than this

-----------------------------------------------------------------------------
(* Characters and strings *)

\* JavaScript values are records, so that any two of them can be compared:
\* undefined, null, a string, a boolean, an array, a number, a Date
Undefined == [undefined |-> TRUE]
Null == [null |-> TRUE]
Str(s) == [text |-> s]
Bool(b) == [boolean |-> b]
Array(a) == [array |-> a]
Num(n) == [num |-> n]
Date(n) == [date |-> n.num]

UpperCase == <<"A","B","C","D","E","F","G","H","I","J","K","L","M",
               "N","O","P","Q","R","S","T","U","V","W","X","Y","Z">>
LowerCase == <<"a","b","c","d","e","f","g","h","i","j","k","l","m",
               "n","o","p","q","r","s","t","u","v","w","x","y","z">>
Digits == {"0","1","2","3","4","5","6","7","8","9"}

Range(s) == {s[i] : i \in DOMAIN s}

\* String.prototype.toLowerCase: the ASCII letters change, nothing else does
LowerOf == [i \in DOMAIN UpperCase |-> LowerCase[i]]
UpperIndex == [c \in Range(UpperCase) |-> CHOOSE i \in DOMAIN UpperCase : UpperCase[i] = c]
lowerChar(c) == IF c \in DOMAIN UpperIndex THEN LowerOf[UpperIndex[c]] ELSE c

toLowerCase(s) == [i \in DOMAIN s |-> lowerChar(s[i])]

\* .replace(/[^a-z0-9-]/g, '-')
SafeChars == Range(LowerCase) \cup Digits \cup {"-"}
replaceUnsafe(s) == [i \in DOMAIN s |-> IF s[i] \in SafeChars THEN s[i] ELSE "-"]

\* .substring(0, n)
substring0(s, n) == SubSeq(s, 1, IF Len(s) < n THEN Len(s) ELSE n)

\* String.prototype.includes
includes(s, sub) ==
  \E i \in 1..(Len(s) - Len(sub) + 1) : SubSeq(s, i, i + Len(sub) - 1) = sub

\* value.slice(-n)
sliceLast(s, n) == SubSeq(s, IF Len(s) > n THEN Len(s) - n + 1 ELSE 1, Len(s))

\* a JavaScript string is falsy exactly when it is empty
falsy(v) == v = Str(<<>>)

\* a nullable number is truthy when it is neither null nor 0
truthy(n) == n # Null /\ n.num # 0

\* Two faulty patterns, /^\d{4}$/ and /^\d{4,}$/
pinFormatExactlyFour(pin) ==
  /\ Len(pin) = 4
  /\ \A i \in DOMAIN pin : pin[i] \in Digits

pinFormatNoUpperBound(pin) ==
  /\ Len(pin) >= 4
  /\ \A i \in DOMAIN pin : pin[i] \in Digits

\* /^\d{4,6}$/.test(pin)
pinFormatOk(pin) ==
  /\ Len(pin) >= 4
  /\ Len(pin) <= 6
  /\ \A i \in DOMAIN pin : pin[i] \in Digits

-----------------------------------------------------------------------------
(* Secret names *)

KEY_VAULT_NAME_LIMIT == 127
MAX_PIN_ATTEMPTS == 3
LOCKOUT_DURATION_MS == 15 * 60 * 1000

financial == <<"f","i","n","a","n","c","i","a","l">>
identity == <<"i","d","e","n","t","i","t","y">>
medical == <<"m","e","d","i","c","a","l">>
SecretCategory == {financial, identity, medical}

getSecretName(userId, category, key) ==
  substring0(replaceUnsafe(toLowerCase(userId \o <<"-">> \o category \o <<"-">> \o key)),
             KEY_VAULT_NAME_LIMIT)

getPinSecretName(userId) ==
  substring0(replaceUnsafe(toLowerCase(
               userId \o <<"-","s","y","s","t","e","m","-","p","i","n">>)),
             KEY_VAULT_NAME_LIMIT)

getLockoutSecretName(userId) ==
  substring0(replaceUnsafe(toLowerCase(
               userId \o <<"-","s","y","s","t","e","m","-","l","o","c","k","o","u","t">>)),
             KEY_VAULT_NAME_LIMIT)

\* Buffer.from(userId).toString('base64'): an injective encoding
base64(userId) == <<"base64", userId>>

-----------------------------------------------------------------------------
(* The vault client (SecretClient): get, set, delete, list.  `faults` says  *)
(* which of the vault calls a handler is about to make fail for a reason    *)
(* other than not-found (vault unreachable, misconfigured): one boolean per *)
(* call, in order; calls beyond its length succeed.                         *)

NoFaults == <<>>
fails(faults) == faults # <<>> /\ Head(faults)
Drop(faults, n) == IF n >= Len(faults) THEN <<>> ELSE SubSeq(faults, n + 1, Len(faults))

\* the errors the client rejects with
SecretNotFound == [code |-> "SecretNotFound", statusCode |-> 404]
ServiceUnavailable == [code |-> "ServiceUnavailable", statusCode |-> 503]

\* A faulty test that recognises no error as not-found
notFoundNever(error) == error.code = "NotFound" /\ error.statusCode = 404

\* azureError.code === 'SecretNotFound' || azureError.statusCode === 404
notFound(error) == error.code = "SecretNotFound" \/ error.statusCode = 404

\* client.getSecret: the secret, the 404 the service answers, or a failure
clientGetSecret(st, faults, name) ==
  IF fails(faults) THEN [ok |-> FALSE, error |-> ServiceUnavailable]
  ELSE IF name \in DOMAIN st
  THEN [ok |-> TRUE, value |-> st[name].value]
  ELSE [ok |-> FALSE, error |-> SecretNotFound]

\* client.setSecret creates the secret or overwrites value and tags
clientSetSecret(st, name, value, tags) ==
  [n \in DOMAIN st \cup {name} |->
     IF n = name THEN [value |-> value, tags |-> tags] ELSE st[n]]

\* client.beginDeleteSecret: removes the secret; 404 when there is none
clientDeleteOk(st, faults, name) == ~fails(faults) /\ name \in DOMAIN st
clientDeleteError(faults) == IF fails(faults) THEN ServiceUnavailable ELSE SecretNotFound
clientBeginDeleteSecret(st, name) ==
  [n \in DOMAIN st \ {name} |-> st[n]]

\* JSON.stringify / JSON.parse of the PIN and lockout objects
JSONstringify(obj) == [json |-> obj]
JSONparse(text) == text.json

\* The calls a handler makes, as the trace records them
Get(st, name) == [call |-> "getSecret", name |-> name]
Set(name, value) == [call |-> "setSecret", name |-> name]
Del(st, name) == [call |-> "beginDeleteSecret", name |-> name]
List == [call |-> "listPropertiesOfSecrets", name |-> <<>>]
Hash == [call |-> "hashPin", name |-> <<>>]

\* the faults left for the calls that follow those of `trace`
VaultCalls(made) == Cardinality({i \in DOMAIN made : made[i].call # "hashPin"})
After(faults, made) == Drop(faults, VaultCalls(made))

-----------------------------------------------------------------------------
(* Secret store adapter.  Every function yields [store, ret, trace]: the   *)
(* store it leaves, what it returns (or throws) and the calls it made.     *)

Threw(r) == "throw" \in DOMAIN r
Throw(error) == [throw |-> error.code]
Field(r, f) == IF f \in DOMAIN r THEN r[f] ELSE Undefined

saveSecret(st, faults, userId, category, key, value) ==
  LET secretName == getSecretName(userId, category, key)
  IN IF fails(faults)
     THEN [store |-> st, ret |-> Throw(ServiceUnavailable),
           trace |-> <<Set(secretName, Str(value))>>]
     ELSE [store |-> clientSetSecret(st, secretName, Str(value),
                      [userId |-> base64(userId), category |-> category, key |-> key]),
           ret |-> Undefined,
           trace |-> <<Set(secretName, Str(value))>>]

\* secret.value || null
valueOrNull(value) == IF falsy(value) THEN Null ELSE value

getSecret(st, faults, userId, category, key) ==
  LET secretName == getSecretName(userId, category, key)
      got(secret) ==
        [store |-> st,
         ret |-> IF secret.ok THEN valueOrNull(secret.value)
                 ELSE IF notFound(secret.error) THEN Null
                 ELSE Throw(secret.error),
         trace |-> <<Get(st, secretName)>>]
  IN got(clientGetSecret(st, faults, secretName))

deleteSecret(st, faults, userId, category, key) ==
  LET secretName == getSecretName(userId, category, key)
  IN IF clientDeleteOk(st, faults, secretName)
     THEN [store |-> clientBeginDeleteSecret(st, secretName),
           ret |-> Undefined,
           trace |-> <<Del(st, secretName)>>]
     ELSE [store |-> st,
           ret |-> Throw(clientDeleteError(faults)),
           trace |-> <<Del(st, secretName)>>]

-----------------------------------------------------------------------------
(* PIN management *)

\* crypto.pbkdf2Sync(pin, salt, 100000, 64, 'sha512').toString('hex'):
\* a function of both arguments, collision-free on the inputs of the model
hashPin(pin, salt) == <<"pbkdf2-sha512", pin, salt>>

\* crypto.randomBytes(32).toString('hex')
Salts == 1..NumSalts

\* A faulty comparison that accepts every hash
hashMatchesAny(inputHash, hash) == TRUE

\* inputHash === hash
hashMatches(inputHash, hash) == inputHash = hash

\* A faulty test with the comparison turned around
lockoutActiveInverted(lockoutData, t) ==
  truthy(lockoutData.lockedUntil) /\ t > lockoutData.lockedUntil.num

\* lockoutData.lockedUntil && now < lockoutData.lockedUntil
lockoutActive(lockoutData, t) ==
  truthy(lockoutData.lockedUntil) /\ t < lockoutData.lockedUntil.num

\* A faulty test that misses the instant lockedUntil itself
lockoutExpiredStrict(lockoutData, t) ==
  truthy(lockoutData.lockedUntil) /\ t > lockoutData.lockedUntil.num

\* lockoutData.lockedUntil && now >= lockoutData.lockedUntil
lockoutExpired(lockoutData, t) ==
  truthy(lockoutData.lockedUntil) /\ t >= lockoutData.lockedUntil.num

\* A faulty count that starts over with every failure
restartedAttempts(lockoutData) == 1

\* (lockoutData.failedAttempts || 0) + 1
nextFailedAttempts(lockoutData) == lockoutData.failedAttempts + 1

\* Two faulty tests: one locks an attempt late, one an attempt early
exceededMaxAttempts(failedAttempts) == failedAttempts > MAX_PIN_ATTEMPTS

reachedMaxAttemptsEarly(failedAttempts) == failedAttempts >= MAX_PIN_ATTEMPTS - 1

\* lockoutData.failedAttempts >= MAX_PIN_ATTEMPTS
reachedMaxAttempts(failedAttempts) == failedAttempts >= MAX_PIN_ATTEMPTS

\* A faulty clearUserLockout that deletes nothing
clearUserLockoutNoop(st, faults, userId) ==
  [store |-> st, ret |-> Undefined, trace |-> <<>>]

\* the catch swallows every error of the delete, not-found or not
clearUserLockout(st, faults, userId) ==
  LET secretName == getLockoutSecretName(userId)
  IN [store |-> IF clientDeleteOk(st, faults, secretName)
                THEN clientBeginDeleteSecret(st, secretName)
                ELSE st,
      ret |-> Undefined,
      trace |-> <<Del(st, secretName)>>]

\* A faulty saveUserPin that leaves the LockoutRecord in place
saveUserPinKeepLockout(st, faults, userId, pin, salt) ==
  LET secretName == getPinSecretName(userId)
  IN IF ~pinFormatOk(pin)
     THEN [store |-> st, ret |-> [throw |-> "PIN must be 4-6 digits"], trace |-> <<>>]
     ELSE LET text == JSONstringify([hash |-> hashPin(pin, salt), salt |-> salt])
          IN [store |-> clientSetSecret(st, secretName, text,
                          [userId |-> base64(userId), type |-> "pin"]),
              ret |-> Undefined,
              trace |-> <<Hash, Set(secretName, text)>>]

saveUserPin(st, faults, userId, pin, salt) ==
  LET secretName == getPinSecretName(userId)
      stored(text) ==
        LET done(cleared) ==
              [store |-> cleared.store,
               ret |-> Undefined,
               trace |-> <<Hash, Set(secretName, text)>> \o cleared.trace]
        IN IF fails(faults)
           THEN [store |-> st, ret |-> Throw(ServiceUnavailable),
                 trace |-> <<Hash, Set(secretName, text)>>]
           ELSE done(clearUserLockout(
                       clientSetSecret(st, secretName, text,
                         [userId |-> base64(userId), type |-> "pin"]),
                       Drop(faults, 1), userId))
  IN IF ~pinFormatOk(pin)
     THEN [store |-> st, ret |-> [throw |-> "PIN must be 4-6 digits"], trace |-> <<>>]
     ELSE stored(JSONstringify([hash |-> hashPin(pin, salt), salt |-> salt]))

hasUserPin(st, faults, userId) ==
  LET secretName == getPinSecretName(userId)
      got(secret) ==
        [store |-> st,
         ret |-> IF secret.ok THEN Bool(TRUE)
                 ELSE IF notFound(secret.error) THEN Bool(FALSE)
                 ELSE Throw(secret.error),
         trace |-> <<Get(st, secretName)>>]
  IN got(clientGetSecret(st, faults, secretName))

getLockoutStatus(st, faults, userId, t) ==
  LET secretName == getLockoutSecretName(userId)
      fresh == [locked |-> FALSE, attemptsLeft |-> MAX_PIN_ATTEMPTS]
      parsed(lockoutData) ==
        IF lockoutActive(lockoutData, t)
        THEN [store |-> st,
              ret |-> [locked |-> TRUE, attemptsLeft |-> 0,
                       unlockTime |-> Date(lockoutData.lockedUntil)],
              trace |-> <<Get(st, secretName)>>]
        ELSE IF lockoutExpired(lockoutData, t)
        THEN LET reset(cleared) ==
                   [store |-> cleared.store, ret |-> fresh,
                    trace |-> <<Get(st, secretName)>> \o cleared.trace]
             IN reset(clearUserLockout(st, Drop(faults, 1), userId))
        ELSE [store |-> st,
              ret |-> [locked |-> FALSE,
                       attemptsLeft |-> MAX_PIN_ATTEMPTS - lockoutData.failedAttempts],
              trace |-> <<Get(st, secretName)>>]
      got(secret) ==
        IF ~secret.ok
        THEN [store |-> st,
              ret |-> IF notFound(secret.error) THEN fresh ELSE Throw(secret.error),
              trace |-> <<Get(st, secretName)>>]
        ELSE IF falsy(secret.value)
        THEN [store |-> st, ret |-> fresh, trace |-> <<Get(st, secretName)>>]
        ELSE parsed(JSONparse(secret.value))
  IN got(clientGetSecret(st, faults, secretName))

\* the catch around the read swallows every error: a read that failed leaves
\* the count at 0; a failure of the write is thrown
recordFailedAttempt(st, faults, userId, t) ==
  LET secretName == getLockoutSecretName(userId)
      recorded(lockoutData) ==
        IF fails(Drop(faults, 1))
        THEN [store |-> st, ret |-> Throw(ServiceUnavailable),
              trace |-> <<Get(st, secretName),
                          Set(secretName, JSONstringify(lockoutData))>>]
        ELSE [store |-> clientSetSecret(st, secretName, JSONstringify(lockoutData),
                          [userId |-> base64(userId), type |-> "lockout"]),
              ret |-> IF truthy(lockoutData.lockedUntil)
                      THEN [locked |-> TRUE, attemptsLeft |-> 0,
                            unlockTime |-> Date(lockoutData.lockedUntil)]
                      ELSE [locked |-> FALSE,
                            attemptsLeft |-> MAX_PIN_ATTEMPTS - lockoutData.failedAttempts],
              trace |-> <<Get(st, secretName),
                          Set(secretName, JSONstringify(lockoutData))>>]
      counted(read, failedAttempts) ==
        recorded([failedAttempts |-> failedAttempts,
                  lockedUntil |-> IF reachedMaxAttempts(failedAttempts)
                                  THEN Num(t + LOCKOUT_DURATION_MS)
                                  ELSE read.lockedUntil])
      parsed(read) == counted(read, nextFailedAttempts(read))
      got(existing) ==
        parsed(IF existing.ok /\ ~falsy(existing.value)
               THEN JSONparse(existing.value)
               ELSE [failedAttempts |-> 0, lockedUntil |-> Null])
  IN got(clientGetSecret(st, faults, secretName))

\* errors of the vault other than not-found leave verifyUserPin as exceptions:
\* getLockoutStatus and the catch of verifyUserPin rethrow them
verifyUserPin(st, faults, userId, pin, t) ==
  LET secretName == getPinSecretName(userId)
      checked(status) ==
        LET lockoutStatus == status.ret
            read == status.trace \o <<Get(status.store, secretName)>>
            matched(cleared) ==
              [store |-> cleared.store,
               ret |-> [valid |-> TRUE, locked |-> FALSE,
                        attemptsLeft |-> MAX_PIN_ATTEMPTS],
               trace |-> read \o <<Hash>> \o cleared.trace]
            mismatched(failed) ==
              LET newStatus == failed.ret
              IN IF Threw(newStatus)
                 THEN [store |-> failed.store, ret |-> newStatus,
                       trace |-> read \o <<Hash>> \o failed.trace]
                 ELSE [store |-> failed.store,
                       ret |-> [valid |-> FALSE,
                                locked |-> newStatus.locked,
                                attemptsLeft |-> newStatus.attemptsLeft,
                                unlockTime |-> Field(newStatus, "unlockTime"),
                                error |-> IF newStatus.locked
                                          THEN <<"Too many failed attempts. Try again in 15 minutes.">>
                                          ELSE <<"Incorrect PIN. ", newStatus.attemptsLeft,
                                                 " attempts remaining.">>],
                       trace |-> read \o <<Hash>> \o failed.trace]
            compared(pinData) ==
              IF hashMatches(hashPin(pin, pinData.salt), pinData.hash)
              THEN matched(clearUserLockout(status.store, After(faults, read), userId))
              ELSE mismatched(recordFailedAttempt(status.store, After(faults, read),
                                                  userId, t))
            got(secret) ==
              IF ~secret.ok
              THEN [store |-> status.store,
                    ret |-> IF notFound(secret.error)
                            THEN [valid |-> FALSE, locked |-> FALSE,
                                  attemptsLeft |-> MAX_PIN_ATTEMPTS,
                                  error |-> <<"No PIN set">>]
                            ELSE Throw(secret.error),
                    trace |-> read]
              ELSE IF falsy(secret.value)
              THEN [store |-> status.store,
                    ret |-> [valid |-> FALSE, locked |-> FALSE,
                             attemptsLeft |-> lockoutStatus.attemptsLeft,
                             error |-> <<"No PIN set">>],
                    trace |-> read]
              ELSE compared(JSONparse(secret.value))
        IN IF Threw(lockoutStatus)
           THEN [store |-> status.store, ret |-> lockoutStatus, trace |-> status.trace]
           ELSE IF lockoutStatus.locked
           THEN [store |-> status.store,
                 ret |-> [valid |-> FALSE, locked |-> TRUE, attemptsLeft |-> 0,
                          unlockTime |-> lockoutStatus.unlockTime,
                          error |-> <<"Too many failed attempts. Try again after ",
                                      lockoutStatus.unlockTime>>],
                 trace |-> status.trace]
           ELSE got(clientGetSecret(status.store, After(faults, status.trace), secretName))
  IN checked(getLockoutStatus(st, faults, userId, t))

\* Two faulty getSecretWithPin: one fetches the secret before it checks the
\* PIN, one answers 'Secret not found' before it checks the PIN
getSecretWithPinFetchFirst(st, faults, userId, pin, category, key, t) ==
  LET answered(fetched, verified) ==
        IF ~verified.ret.valid
        THEN [store |-> verified.store,
              ret |-> [success |-> FALSE, error |-> verified.ret.error,
                       locked |-> verified.ret.locked,
                       attemptsLeft |-> verified.ret.attemptsLeft],
              trace |-> fetched.trace \o verified.trace]
        ELSE IF fetched.ret = Null
        THEN [store |-> verified.store,
              ret |-> [success |-> FALSE, error |-> <<"Secret not found">>],
              trace |-> fetched.trace \o verified.trace]
        ELSE [store |-> verified.store,
              ret |-> [success |-> TRUE, value |-> fetched.ret.text],
              trace |-> fetched.trace \o verified.trace]
  IN answered(getSecret(st, NoFaults, userId, category, key),
              verifyUserPin(st, NoFaults, userId, pin, t))

getSecretWithPinExistsFirst(st, faults, userId, pin, category, key, t) ==
  LET answered(verified) ==
        IF getSecretName(userId, category, key) \notin DOMAIN st
        THEN [store |-> st,
              ret |-> [success |-> FALSE, error |-> <<"Secret not found">>],
              trace |-> <<>>]
        ELSE IF ~verified.ret.valid
        THEN [store |-> verified.store,
              ret |-> [success |-> FALSE, error |-> verified.ret.error,
                       locked |-> verified.ret.locked,
                       attemptsLeft |-> verified.ret.attemptsLeft],
              trace |-> verified.trace]
        ELSE [store |-> verified.store,
              ret |-> [success |-> TRUE,
                       value |-> st[getSecretName(userId, category, key)].value.text],
              trace |-> verified.trace]
  IN answered(verifyUserPin(st, NoFaults, userId, pin, t))

getSecretWithPin(st, faults, userId, pin, category, key, t) ==
  LET verifiedThen(verified) ==
        LET pinResult == verified.ret
            fetchedThen(fetched) ==
              IF Threw(fetched.ret)
              THEN [store |-> fetched.store, ret |-> fetched.ret,
                    trace |-> verified.trace \o fetched.trace]
              ELSE IF fetched.ret = Null
              THEN [store |-> fetched.store,
                    ret |-> [success |-> FALSE, error |-> <<"Secret not found">>],
                    trace |-> verified.trace \o fetched.trace]
              ELSE [store |-> fetched.store,
                    ret |-> [success |-> TRUE, value |-> fetched.ret.text],
                    trace |-> verified.trace \o fetched.trace]
        IN IF Threw(pinResult)
           THEN verified
           ELSE IF ~pinResult.valid
           THEN [store |-> verified.store,
                 ret |-> [success |-> FALSE, error |-> pinResult.error,
                          locked |-> pinResult.locked,
                          attemptsLeft |-> pinResult.attemptsLeft],
                 trace |-> verified.trace]
           ELSE fetchedThen(getSecret(verified.store, After(faults, verified.trace),
                                      userId, category, key))
  IN verifiedThen(verifyUserPin(st, faults, userId, pin, t))

-----------------------------------------------------------------------------
(* Masked listing *)

Stars(n) == [i \in 1..n |-> "*"]

maskValue(key, value) ==
  LET lowerKey == toLowerCase(key)
  IN IF includes(lowerKey, <<"s","s","n">>) \/ includes(lowerKey, <<"s","o","c","i","a","l">>)
     THEN (IF Len(value) >= 4
           THEN <<"X","X","X","-","X","X","-">> \o sliceLast(value, 4)
           ELSE Stars(4))
     ELSE IF includes(lowerKey, <<"a","c","c","o","u","n","t">>)
             \/ includes(lowerKey, <<"r","o","u","t","i","n","g">>)
     THEN (IF Len(value) >= 4 THEN Stars(4) \o sliceLast(value, 4) ELSE Stars(4))
     ELSE IF includes(lowerKey, <<"c","a","r","d">>)
     THEN (IF Len(value) >= 4
           THEN <<"*","*","*","*","-","*","*","*","*","-","*","*","*","*","-">>
                  \o sliceLast(value, 4)
           ELSE Stars(4))
     ELSE IF includes(lowerKey, <<"p","a","s","s","w","o","r","d">>)
             \/ includes(lowerKey, <<"p","i","n">>)
     THEN Stars(8)
     ELSE IF Len(value) > 2
     THEN <<value[1]>> \o Stars(Len(value) - 2) \o sliceLast(value, 1)
     ELSE Stars(4)

\* The loop of getSecretsMasked over client.listPropertiesOfSecrets(), which
\* yields the names in `order`.  An entry without category and key tags (the
\* PIN and lockout records carry the user's tag too) makes maskValue throw a
\* TypeError on key.toLowerCase(), and a getSecret can throw a failure of the
\* vault; the catch around the loop ends the listing with the entries pushed
\* so far.
RECURSIVE maskedLoop(_, _, _, _, _)
maskedLoop(st, faults, userId, order, acc) ==
  IF order = <<>> THEN acc
  ELSE LET tags == st[Head(order)].tags
       IN IF tags.userId # base64(userId)
          THEN maskedLoop(st, faults, userId, Tail(order), acc)
          ELSE IF "key" \notin DOMAIN tags
          THEN [acc EXCEPT !.trace = Append(@,
                  Get(st, getSecretName(userId, <<"u","n","d","e","f","i","n","e","d">>,
                                        <<"u","n","d","e","f","i","n","e","d">>)))]
          ELSE LET got == getSecret(st, faults, userId, tags.category, tags.key)
               IN IF Threw(got.ret)
                  THEN [acc EXCEPT !.trace = @ \o got.trace]
                  ELSE maskedLoop(st, Drop(faults, 1), userId, Tail(order),
                         [secrets |-> Append(acc.secrets,
                            [category |-> tags.category, key |-> tags.key,
                             maskedValue |-> maskValue(tags.key,
                                               IF got.ret = Null THEN <<>>
                                               ELSE got.ret.text)]),
                          trace |-> acc.trace \o got.trace])

getSecretsMasked(st, faults, userId, order) ==
  LET done == IF fails(faults) THEN [secrets |-> <<>>, trace |-> <<List>>]
              ELSE maskedLoop(st, Drop(faults, 1), userId, order,
                              [secrets |-> <<>>, trace |-> <<List>>])
  IN [store |-> st, ret |-> Array(done.secrets), trace |-> done.trace]

-----------------------------------------------------------------------------
(* Inputs *)

Rep(c, n) == [i \in 1..n |-> c]

Users == {<<"A","l","@","x",".","i","o">>}
NoSession == <<>>
None == <<>>

Keys == {<<"i","d">>}
Values == {<<>>, <<"a","b">>, <<"a","*","b">>}
CategoryInputs == {financial}

\* PIN strings of Spec: two well-formed PINs, one too long, one with a
\* character that is no digit
PinInputs ==
  {Rep("1", 4), Rep("9", 4), Rep("1", MaxPinLen), <<"1","1","1","a">>}

\* PIN strings of SpecPin: every length from 0 to MaxPinLen, all digits or
\* with one character, at any position, that is no digit
PinStrings ==
  UNION {{Rep("1", n)} \cup {[Rep("1", n) EXCEPT ![i] = "a"] : i \in 1..n} : n \in 0..MaxPinLen}

TickMs == LOCKOUT_DURATION_MS \div TicksPerLockout

Triples == Users \X CategoryInputs \X Keys

Perms(S) ==
  {f \in [1..Cardinality(S) -> S] : \A i, j \in 1..Cardinality(S) : f[i] = f[j] => i = j}

\* the orders in which the listing can meet the entries tagged with userId
ListOrders(st, userId) ==
  Perms({n \in DOMAIN st : st[n].tags.userId = base64(userId)})

-----------------------------------------------------------------------------
(* The library calls, one action per exported function *)

Call(fn, userId, pin, category, key) ==
  [fn |-> fn, userId |-> userId, pin |-> pin, category |-> category, key |-> key,
   faults |-> NoFaults]

Run(call, out) ==
  /\ op' = call
  /\ before' = store
  /\ store' = out.store
  /\ result' = out.ret
  /\ trace' = out.trace
  /\ response' = Undefined
  /\ UNCHANGED <<now, calls, state>>

SaveSecret(u, c, k, v) ==
  /\ Run(Call("saveSecret", u, None, c, k), saveSecret(store, NoFaults, u, c, k, v))
  /\ written' = [written EXCEPT ![<<u, c, k>>] = Str(v)]

GetSecret(u, c, k) ==
  /\ Run(Call("getSecret", u, None, c, k), getSecret(store, NoFaults, u, c, k))
  /\ UNCHANGED written

DeleteSecret(u, c, k) ==
  /\ Run(Call("deleteSecret", u, None, c, k), deleteSecret(store, NoFaults, u, c, k))
  /\ written' = IF Threw(result') THEN written
                ELSE [written EXCEPT ![<<u, c, k>>] = Undefined]

GetSecretsMasked(u, order) ==
  /\ Run(Call("getSecretsMasked", u, None, None, None),
         getSecretsMasked(store, NoFaults, u, order))
  /\ UNCHANGED written

SaveUserPin(u, pin, salt) ==
  /\ Run(Call("saveUserPin", u, pin, None, None), saveUserPin(store, NoFaults, u, pin, salt))
  /\ UNCHANGED written

HasUserPin(u) ==
  /\ Run(Call("hasUserPin", u, None, None, None), hasUserPin(store, NoFaults, u))
  /\ UNCHANGED written

VerifyUserPin(u, pin) ==
  /\ Run(Call("verifyUserPin", u, pin, None, None), verifyUserPin(store, NoFaults, u, pin, now))
  /\ UNCHANGED written

GetSecretWithPin(u, pin, c, k) ==
  /\ Run(Call("getSecretWithPin", u, pin, c, k),
         getSecretWithPin(store, NoFaults, u, pin, c, k, now))
  /\ UNCHANGED written

\* time passes between two requests
Tick ==
  /\ now + TickMs <= MaxTicks * TickMs
  /\ now' = now + TickMs
  /\ op' = Call("tick", None, None, None, None)
  /\ before' = store
  /\ result' = Undefined
  /\ trace' = <<>>
  /\ response' = Undefined
  /\ UNCHANGED <<store, written, calls, state>>

Init ==
  /\ store = <<>>
  /\ now = 0
  /\ op = Call("init", None, None, None, None)
  /\ before = <<>>
  /\ result = Undefined
  /\ trace = <<>>
  /\ response = Undefined
  /\ written = [t \in Triples |-> Undefined]
  /\ calls = <<>>
  /\ state = [familyMembers |-> <<>>, events |-> <<>>]

Next ==
  \/ \E u \in Users, c \in CategoryInputs, k \in Keys, v \in Values : SaveSecret(u, c, k, v)
  \/ \E u \in Users, c \in CategoryInputs, k \in Keys : GetSecret(u, c, k)
  \/ \E u \in Users, c \in CategoryInputs, k \in Keys : DeleteSecret(u, c, k)
  \/ \E u \in Users : \E order \in ListOrders(store, u) : GetSecretsMasked(u, order)
  \/ \E u \in Users, pin \in PinInputs, salt \in Salts : SaveUserPin(u, pin, salt)
  \/ \E u \in Users : HasUserPin(u)
  \/ \E u \in Users, pin \in PinInputs : VerifyUserPin(u, pin)
  \/ \E u \in Users, pin \in PinInputs, c \in CategoryInputs, k \in Keys :
       GetSecretWithPin(u, pin, c, k)
  \/ Tick

Spec == Init /\ [][Next]_vars

\* The PIN manager alone, on every string of PinStrings
NextPin ==
  \/ \E u \in Users, pin \in PinStrings, salt \in Salts : SaveUserPin(u, pin, salt)
  \/ \E u \in Users, pin \in PinStrings : VerifyUserPin(u, pin)
  \/ Tick

SpecPin == Init /\ [][NextPin]_vars

-----------------------------------------------------------------------------
(* The HTTP handlers of /api/pin and /api/secure-info.  session is the      *)
(* e-mail of the signed-in user, or NoSession; a field the request body     *)
(* lacks is the empty string, which the handlers' !field tests treat alike. *)

Respond(status, body) == [status |-> status, body |-> body]
Unauthorized == Respond(401, [error |-> <<"Unauthorized">>])
NoCall(st, res) ==
  [store |-> st, ret |-> Undefined, trace |-> <<>>, response |-> res]
Answer(out, res) ==
  [store |-> out.store, ret |-> out.ret, trace |-> out.trace, response |-> res]

\* A faulty test that lets every category through
validCategoryAny(category) == TRUE

\* validCategories.includes(category)
validCategory(category) == category \in {financial, identity, medical}

\* /^[a-zA-Z0-9_-]+$/.test(key)
keyFormatOk(key) ==
  /\ Len(key) >= 1
  /\ \A i \in DOMAIN key :
       key[i] \in Range(LowerCase) \cup Range(UpperCase) \cup Digits \cup {"_", "-"}

\* the body of a failed PIN check: JSON drops the fields that are undefined
failureBody(r) ==
  IF "locked" \in DOMAIN r
  THEN [success |-> FALSE, error |-> r.error, locked |-> r.locked,
        attemptsLeft |-> r.attemptsLeft]
  ELSE [success |-> FALSE, error |-> r.error]

\* A faulty status mapping: 401 for every failure
failureStatusAlways401(r) == 401

\* result.locked ? 429 : 401
failureStatus(r) == IF "locked" \in DOMAIN r /\ r.locked THEN 429 ELSE 401

pinGET(st, faults, session) ==
  LET answered(out) ==
        IF Threw(out.ret)
        THEN Answer(out, Respond(500, [error |-> <<"Failed to check PIN status">>]))
        ELSE Answer(out, Respond(200, [hasPin |-> out.ret.boolean]))
  IN IF session = NoSession THEN NoCall(st, Unauthorized)
     ELSE answered(hasUserPin(st, faults, session))

pinPOST(st, faults, session, pin, salt) ==
  LET answered(out) ==
        IF Threw(out.ret)
        THEN Answer(out, Respond(500, [error |-> <<out.ret.throw>>]))
        ELSE Answer(out, Respond(200, [success |-> TRUE,
                                       message |-> <<"PIN set successfully">>]))
  IN IF session = NoSession THEN NoCall(st, Unauthorized)
     ELSE IF pin = <<>>
     THEN NoCall(st, Respond(400, [error |-> <<"PIN is required">>]))
     ELSE IF ~pinFormatOk(pin)
     THEN NoCall(st, Respond(400, [error |-> <<"PIN must be 4-6 digits">>]))
     ELSE answered(saveUserPin(st, faults, session, pin, salt))

pinPUT(st, faults, session, pin, category, key, t) ==
  LET failed(out) == Answer(out, Respond(500, [error |-> <<"Failed to verify PIN">>]))
      fetched(out) ==
        IF Threw(out.ret) THEN failed(out)
        ELSE IF ~out.ret.success
        THEN Answer(out, Respond(failureStatus(out.ret), failureBody(out.ret)))
        ELSE Answer(out, Respond(200, [success |-> TRUE, value |-> out.ret.value]))
      verified(out) ==
        IF Threw(out.ret) THEN failed(out)
        ELSE IF ~out.ret.valid
        THEN Answer(out, Respond(failureStatus(out.ret), failureBody(out.ret)))
        ELSE Answer(out, Respond(200, [success |-> TRUE, message |-> <<"PIN verified">>]))
  IN IF session = NoSession THEN NoCall(st, Unauthorized)
     ELSE IF pin = <<>>
     THEN NoCall(st, Respond(400, [error |-> <<"PIN is required">>]))
     ELSE IF category # <<>> /\ key # <<>>
     THEN IF ~validCategory(category)
          THEN NoCall(st, Respond(400, [error |-> <<"Invalid category">>]))
          ELSE fetched(getSecretWithPin(st, faults, session, pin, category, key, t))
     ELSE verified(verifyUserPin(st, faults, session, pin, t))

secureInfoGET(st, faults, session, order) ==
  LET answered(out) == Answer(out, Respond(200, [secrets |-> out.ret.array]))
  IN IF session = NoSession THEN NoCall(st, Unauthorized)
     ELSE answered(getSecretsMasked(st, faults, session, order))

secureInfoPOST(st, faults, session, category, key, value) ==
  LET answered(out) ==
        IF Threw(out.ret)
        THEN Answer(out, Respond(500, [error |-> <<"Failed to save secure information">>]))
        ELSE Answer(out, Respond(200, [success |-> TRUE]))
  IN
  IF session = NoSession THEN NoCall(st, Unauthorized)
  ELSE IF category = <<>> \/ key = <<>> \/ value = <<>>
  THEN NoCall(st, Respond(400, [error |-> <<"Category, key, and value are required">>]))
  ELSE IF ~validCategory(category)
  THEN NoCall(st, Respond(400,
         [error |-> <<"Invalid category. Must be one of: financial, identity, medical">>]))
  ELSE IF ~keyFormatOk(key)
  THEN NoCall(st, Respond(400,
         [error |-> <<"Key must contain only letters, numbers, underscores, and hyphens">>]))
  ELSE answered(saveSecret(st, faults, session, category, key, value))

secureInfoDELETE(st, faults, session, category, key) ==
  LET answered(out) ==
        IF Threw(out.ret)
        THEN Answer(out, Respond(500,
               [error |-> <<"Failed to delete secure information">>]))
        ELSE Answer(out, Respond(200, [success |-> TRUE]))
  IN IF session = NoSession THEN NoCall(st, Unauthorized)
     ELSE IF category = <<>> \/ key = <<>>
     THEN NoCall(st, Respond(400, [error |-> <<"Category and key are required">>]))
     ELSE IF ~validCategory(category)
     THEN NoCall(st, Respond(400, [error |-> <<"Invalid category">>]))
     ELSE answered(deleteSecret(st, faults, session, category, key))

secureInfoPUT(st, faults, session, category, key) ==
  LET answered(out) ==
        IF Threw(out.ret)
        THEN Answer(out, Respond(500,
               [error |-> <<"Failed to retrieve secure information">>]))
        ELSE IF out.ret = Null
        THEN Answer(out, Respond(404, [error |-> <<"Secret not found">>]))
        ELSE Answer(out, Respond(200, [value |-> out.ret.text]))
  IN IF session = NoSession THEN NoCall(st, Unauthorized)
     ELSE IF category = <<>> \/ key = <<>>
     THEN NoCall(st, Respond(400, [error |-> <<"Category and key are required">>]))
     ELSE IF ~validCategory(category)
     THEN NoCall(st, Respond(400, [error |-> <<"Invalid category">>]))
     ELSE answered(getSecret(st, faults, session, category, key))

\* What a request can carry
BodyPins == PinInputs \cup {<<>>}
BodyCategories == CategoryInputs \cup {<<>>, <<"x">>}
BodyKeys == Keys \cup {<<>>}
PostKeys == BodyKeys \cup {<<"i",".">>}

Serve(call, out) ==
  /\ op' = call
  /\ before' = store
  /\ store' = out.store
  /\ result' = out.ret
  /\ trace' = out.trace
  /\ response' = out.response
  /\ UNCHANGED <<now, calls, state>>

PinGET(session) ==
  /\ Serve(Call("GET /api/pin", session, None, None, None), pinGET(store, NoFaults, session))
  /\ UNCHANGED written

PinPOST(session, pin, salt) ==
  /\ Serve(Call("POST /api/pin", session, pin, None, None),
           pinPOST(store, NoFaults, session, pin, salt))
  /\ UNCHANGED written

PinPUT(session, pin, category, key) ==
  /\ Serve(Call("PUT /api/pin", session, pin, category, key),
           pinPUT(store, NoFaults, session, pin, category, key, now))
  /\ UNCHANGED written

SecureInfoGET(session, order) ==
  /\ Serve(Call("GET /api/secure-info", session, None, None, None),
           secureInfoGET(store, NoFaults, session, order))
  /\ UNCHANGED written

SecureInfoPOST(session, category, key, value) ==
  /\ Serve(Call("POST /api/secure-info", session, None, category, key),
           secureInfoPOST(store, NoFaults, session, category, key, value))
  /\ written' = IF response'.status = 200 /\ <<session, category, key>> \in Triples
                THEN [written EXCEPT ![<<session, category, key>>] = Str(value)]
                ELSE written

SecureInfoDELETE(session, category, key) ==
  /\ Serve(Call("DELETE /api/secure-info", session, None, category, key),
           secureInfoDELETE(store, NoFaults, session, category, key))
  /\ written' = IF response'.status = 200 /\ <<session, category, key>> \in Triples
                THEN [written EXCEPT ![<<session, category, key>>] = Undefined]
                ELSE written

SecureInfoPUT(session, category, key) ==
  /\ Serve(Call("PUT /api/secure-info", session, None, category, key),
           secureInfoPUT(store, NoFaults, session, category, key))
  /\ UNCHANGED written

\* a request without a session: answered 401 before the body is read
Unauthenticated ==
  \/ PinGET(NoSession)
  \/ \E pin \in {<<>>, Rep("1", 4)}, salt \in Salts : PinPOST(NoSession, pin, salt)
  \/ \E pin \in {<<>>, Rep("1", 4)}, k \in BodyKeys : PinPUT(NoSession, pin, financial, k)
  \/ SecureInfoGET(NoSession, <<>>)
  \/ \E k \in BodyKeys, v \in Values : SecureInfoPOST(NoSession, financial, k, v)
  \/ \E k \in BodyKeys : SecureInfoDELETE(NoSession, financial, k)
  \/ \E k \in BodyKeys : SecureInfoPUT(NoSession, financial, k)

NextHttp ==
  \/ \E session \in Users : PinGET(session)
  \/ \E session \in Users, pin \in BodyPins, salt \in Salts : PinPOST(session, pin, salt)
  \/ \E session \in Users, pin \in BodyPins, c \in BodyCategories, k \in BodyKeys :
       PinPUT(session, pin, c, k)
  \/ \E session \in Users :
       \E order \in ListOrders(store, session) : SecureInfoGET(session, order)
  \/ \E session \in Users, c \in BodyCategories, k \in PostKeys, v \in Values :
       SecureInfoPOST(session, c, k, v)
  \/ \E session \in Users, c \in BodyCategories, k \in BodyKeys :
       SecureInfoDELETE(session, c, k)
  \/ \E session \in Users, c \in BodyCategories, k \in BodyKeys :
       SecureInfoPUT(session, c, k)
  \/ Unauthenticated
  \/ Tick

SpecHttp == Init /\ [][NextHttp]_vars

\* The library called for several users and keys: user ids that differ in a
\* character the name derivation replaces, keys that differ in case
NameUsers == {<<"a",".","b","@","x">>, <<"a","_","b","@","x">>}
NameKeys == {<<"i","d">>, <<"I","D">>}
NameTriples == NameUsers \X {financial} \X NameKeys

InitNames ==
  /\ store = <<>>
  /\ now = 0
  /\ op = Call("init", None, None, None, None)
  /\ before = <<>>
  /\ result = Undefined
  /\ trace = <<>>
  /\ response = Undefined
  /\ written = [t \in NameTriples |-> Undefined]
  /\ calls = <<>>
  /\ state = [familyMembers |-> <<>>, events |-> <<>>]

NextNames ==
  \/ \E t \in NameTriples, v \in {<<"a","b">>, <<"c","d">>} : SaveSecret(t[1], t[2], t[3], v)
  \/ \E t \in NameTriples : GetSecret(t[1], t[2], t[3])
  \/ \E t \in NameTriples : DeleteSecret(t[1], t[2], t[3])
  \/ \E u \in NameUsers, pin \in {Rep("1", 4), Rep("9", 4)} : SaveUserPin(u, pin, 1)
  \/ \E u \in NameUsers : VerifyUserPin(u, Rep("1", 4))

SpecNames == InitNames /\ [][NextNames]_vars

\* A user id whose PinRecord has the name of a secret of another user:
\* getPinSecretName('a.b.x-financial@k') and
\* getSecretName('a.b@x', 'financial', 'k-system-pin') are both
\* 'a-b-x-financial-k-system-pin'
SharedUser == <<"a",".","b",".","x","-","f","i","n","a","n","c","i","a","l","@","k">>
SharedKey == <<"k","-","s","y","s","t","e","m","-","p","i","n">>

NextShared ==
  \/ \E pin \in {Rep("1", 4), Rep("9", 4)}, salt \in Salts : SaveUserPin(SharedUser, pin, salt)
  \/ \E pin \in {Rep("1", 4), Rep("9", 4)} : VerifyUserPin(SharedUser, pin)
  \/ HasUserPin(SharedUser)
  \/ \E u \in NameUsers : DeleteSecret(u, financial, SharedKey)
  \/ Tick

InitShared ==
  /\ store = <<>>
  /\ now = 0
  /\ op = Call("init", None, None, None, None)
  /\ before = <<>>
  /\ result = Undefined
  /\ trace = <<>>
  /\ response = Undefined
  /\ written = [t \in NameUsers \X {financial} \X {SharedKey} |-> Undefined]
  /\ calls = <<>>
  /\ state = [familyMembers |-> <<>>, events |-> <<>>]

SpecShared == InitShared /\ [][NextShared]_vars

\* Concurrent verifyUserPin calls.  Each await of the vault client is a step
\* of its own: the step makes the vault call and runs the code that follows it
\* up to the next await.  pc names the vault call a request waits for.
Procs == {1, 2}

InitRace ==
  /\ store = saveUserPin(<<>>, NoFaults, CHOOSE u \in Users : TRUE, Rep("1", 4), 1).store
  /\ now = 0
  /\ op = Call("init", None, None, None, None)
  /\ before = <<>>
  /\ result = Undefined
  /\ trace = <<>>
  /\ response = Undefined
  /\ written = [t \in Triples |-> Undefined]
  /\ calls = [p \in Procs |->
               [pc |-> "idle", userId |-> None, pin |-> None, made |-> 0, compared |-> 0,
                read |-> Null, lockoutData |-> Null, ret |-> Undefined]]
  /\ state = [familyMembers |-> <<>>, events |-> <<>>]

\* a request arrives: verifyUserPin(userId, pin) starts
RaceBegin(p, userId, pin) ==
  /\ calls[p].pc \in {"idle", "done"}
  /\ calls[p].made < MaxCalls
  /\ calls' = [calls EXCEPT ![p] =
       [@ EXCEPT !.pc = "getLockoutStatus", !.userId = userId, !.pin = pin,
                 !.made = @ + 1, !.read = Null, !.lockoutData = Null, !.ret = Undefined]]
  /\ UNCHANGED <<store, now, op, before, result, trace, response, written, state>>

\* getLockoutStatus: await client.getSecret(lockout), then the tests on it
RaceGetLockout(p) ==
  LET got(secret) ==
        IF ~secret.ok \/ falsy(secret.value) THEN [calls[p] EXCEPT !.pc = "getPin"]
        ELSE IF lockoutActive(JSONparse(secret.value), now)
        THEN [calls[p] EXCEPT !.pc = "done",
                !.ret = [valid |-> FALSE, locked |-> TRUE, attemptsLeft |-> 0,
                         unlockTime |-> Date(JSONparse(secret.value).lockedUntil)]]
        ELSE IF lockoutExpired(JSONparse(secret.value), now)
        THEN [calls[p] EXCEPT !.pc = "clearExpired"]
        ELSE [calls[p] EXCEPT !.pc = "getPin"]
  IN /\ calls[p].pc = "getLockoutStatus"
     /\ calls' = [calls EXCEPT ![p] =
          got(clientGetSecret(store, NoFaults, getLockoutSecretName(calls[p].userId)))]
     /\ UNCHANGED <<store, now, op, before, result, trace, response, written, state>>

\* clearUserLockout: await client.beginDeleteSecret(lockout), for an expired
\* lockout in getLockoutStatus or after a matching hash in verifyUserPin
RaceClearLockout(p) ==
  /\ calls[p].pc \in {"clearExpired", "clearUserLockout"}
  /\ store' = clearUserLockout(store, NoFaults, calls[p].userId).store
  /\ calls' = [calls EXCEPT ![p] =
       IF calls[p].pc = "clearExpired" THEN [@ EXCEPT !.pc = "getPin"]
       ELSE [@ EXCEPT !.pc = "done",
               !.ret = [valid |-> TRUE, locked |-> FALSE,
                        attemptsLeft |-> MAX_PIN_ATTEMPTS]]]
  /\ UNCHANGED <<now, op, before, result, trace, response, written, state>>

\* verifyUserPin: await client.getSecret(pin), then the hash comparison
RaceGetPin(p) ==
  LET got(secret) ==
        IF ~secret.ok \/ falsy(secret.value)
        THEN [calls[p] EXCEPT !.pc = "done",
                !.ret = [valid |-> FALSE, locked |-> FALSE,
                         attemptsLeft |-> MAX_PIN_ATTEMPTS, error |-> <<"No PIN set">>]]
        ELSE IF hashMatches(hashPin(calls[p].pin, JSONparse(secret.value).salt),
                            JSONparse(secret.value).hash)
        THEN [calls[p] EXCEPT !.pc = "clearUserLockout"]
        ELSE [calls[p] EXCEPT !.pc = "recordFailedAttempt", !.compared = @ + 1]
  IN /\ calls[p].pc = "getPin"
     /\ calls' = [calls EXCEPT ![p] =
          got(clientGetSecret(store, NoFaults, getPinSecretName(calls[p].userId)))]
     /\ UNCHANGED <<store, now, op, before, result, trace, response, written, state>>

\* recordFailedAttempt: await client.getSecret(lockout), then the increment
\* and the test that locks
RaceReadAttempts(p) ==
  LET counted(read, failedAttempts) ==
        [calls[p] EXCEPT !.pc = "setSecret", !.read = Num(read.failedAttempts),
           !.lockoutData = [failedAttempts |-> failedAttempts,
                            lockedUntil |-> IF reachedMaxAttempts(failedAttempts)
                                            THEN Num(now + LOCKOUT_DURATION_MS)
                                            ELSE read.lockedUntil]]
      parsed(read) == counted(read, nextFailedAttempts(read))
      got(existing) ==
        parsed(IF existing.ok /\ ~falsy(existing.value)
               THEN JSONparse(existing.value)
               ELSE [failedAttempts |-> 0, lockedUntil |-> Null])
  IN /\ calls[p].pc = "recordFailedAttempt"
     /\ calls' = [calls EXCEPT ![p] =
          got(clientGetSecret(store, NoFaults, getLockoutSecretName(calls[p].userId)))]
     /\ UNCHANGED <<store, now, op, before, result, trace, response, written, state>>

\* recordFailedAttempt: await client.setSecret(lockout), then the result
RaceWriteAttempts(p) ==
  /\ calls[p].pc = "setSecret"
  /\ store' = clientSetSecret(store, getLockoutSecretName(calls[p].userId),
                              JSONstringify(calls[p].lockoutData),
                              [userId |-> base64(calls[p].userId), type |-> "lockout"])
  /\ calls' = [calls EXCEPT ![p] =
       [@ EXCEPT !.pc = "done",
          !.ret = IF truthy(calls[p].lockoutData.lockedUntil)
                  THEN [valid |-> FALSE, locked |-> TRUE, attemptsLeft |-> 0,
                        unlockTime |-> Date(calls[p].lockoutData.lockedUntil)]
                  ELSE [valid |-> FALSE, locked |-> FALSE,
                        attemptsLeft |-> MAX_PIN_ATTEMPTS
                                           - calls[p].lockoutData.failedAttempts]]]
  /\ UNCHANGED <<now, op, before, result, trace, response, written, state>>

NextRace ==
  \/ \E p \in Procs, u \in Users, pin \in {Rep("1", 4), Rep("9", 4)} : RaceBegin(p, u, pin)
  \/ \E p \in Procs : RaceGetLockout(p)
  \/ \E p \in Procs : RaceClearLockout(p)
  \/ \E p \in Procs : RaceGetPin(p)
  \/ \E p \in Procs : RaceReadAttempts(p)
  \/ \E p \in Procs : RaceWriteAttempts(p)
  \/ Tick

SpecRace == InitRace /\ [][NextRace]_vars

\* The PIN-gated calls against a vault that can fail: no call of the handler
\* fails, or its k-th call does
FaultInputs == {NoFaults} \cup {[i \in 1..k |-> i = k] : k \in 1..MaxFaultAt}

Faulty(call, faults) == [call EXCEPT !.faults = faults]

SaveUserPinFaulty(u, pin, salt, faults) ==
  /\ Run(Faulty(Call("saveUserPin", u, pin, None, None), faults),
         saveUserPin(store, faults, u, pin, salt))
  /\ UNCHANGED written

VerifyUserPinFaulty(u, pin, faults) ==
  /\ Run(Faulty(Call("verifyUserPin", u, pin, None, None), faults),
         verifyUserPin(store, faults, u, pin, now))
  /\ UNCHANGED written

GetSecretWithPinFaulty(u, pin, c, k, faults) ==
  /\ Run(Faulty(Call("getSecretWithPin", u, pin, c, k), faults),
         getSecretWithPin(store, faults, u, pin, c, k, now))
  /\ UNCHANGED written

PinPUTFaulty(session, pin, category, key, faults) ==
  /\ Serve(Faulty(Call("PUT /api/pin", session, pin, category, key), faults),
           pinPUT(store, faults, session, pin, category, key, now))
  /\ UNCHANGED written

NextFault ==
  \/ \E u \in Users, c \in CategoryInputs, k \in Keys : SaveSecret(u, c, k, <<"a","b">>)
  \/ \E u \in Users, pin \in {Rep("1", 4), Rep("9", 4)}, faults \in FaultInputs :
       SaveUserPinFaulty(u, pin, 1, faults)
  \/ \E u \in Users, pin \in {Rep("1", 4), Rep("9", 4)}, faults \in FaultInputs :
       VerifyUserPinFaulty(u, pin, faults)
  \/ \E u \in Users, pin \in {Rep("1", 4), Rep("9", 4)}, c \in CategoryInputs, k \in Keys,
          faults \in FaultInputs :
       GetSecretWithPinFaulty(u, pin, c, k, faults)
  \/ \E session \in Users, pin \in {Rep("1", 4), Rep("9", 4)}, c \in CategoryInputs,
          k \in BodyKeys, faults \in FaultInputs :
       PinPUTFaulty(session, pin, c, k, faults)
  \/ Tick

SpecFault == Init /\ [][NextFault]_vars

-----------------------------------------------------------------------------
(* The client state manager (AppProvider).  state is the AppState of the   *)
(* provider; an event is [id, title, type, memberId, source].  addEvent,    *)
(* updateEvent and removeEvent apply their storage function to the current  *)
(* state (setState(prev => ...)).  A sync reads state.events when it is     *)
(* called, awaits one scrape per calendar, and then replaces state.events   *)
(* by the list it has built; calls[p] holds a sync in flight: the calendars *)
(* still to scrape (todo), all the calendars of the call (synced) and the   *)
(* list built so far (currentEvents).  Writing the state to localStorage    *)
(* and to the server (saveState) is left out.                               *)

\* syncSchoolCalendar, syncFlightRestrictionsFromUrl: the events kept, all
\* but the scraped events of this member and type
otherEvents(existingEvents, memberId, eventType) ==
  SelectSeq(existingEvents,
            LAMBDA e : ~(e.memberId = memberId /\ e.source = "scraped" /\ e.type = eventType))

\* the events a scrape returns, one for each uuid in uuids
scrapeCalendarFromUrl(memberId, eventType, uuids) ==
  [i \in 1..Len(uuids) |->
     [type |-> eventType, memberId |-> memberId, source |-> "scraped",
      id |-> uuids[i], title |-> "Untitled Event"]]

InitSync ==
  /\ store = <<>>
  /\ now = 0
  /\ op = Call("init", None, None, None, None)
  /\ before = <<>>
  /\ result = Undefined
  /\ trace = <<>>
  /\ response = Undefined
  /\ written = [t \in Triples |-> Undefined]
  /\ calls = [p \in Procs |->
               [fn |-> "", pc |-> "idle", todo |-> <<>>, synced |-> <<>>,
                currentEvents |-> <<>>]]
  /\ state = [familyMembers |->
                <<[id |-> "m1", schoolCalendarUrl |-> TRUE, flightRestrictionUrl |-> TRUE],
                  [id |-> "m2", schoolCalendarUrl |-> FALSE, flightRestrictionUrl |-> FALSE]>>,
              events |-> <<>>]

addEvent(event) ==
  /\ Len(state.events) < MaxEvents
  /\ \A i \in DOMAIN state.events : state.events[i].id # event.id
  /\ state' = [state EXCEPT !.events = Append(@, event)]
  /\ UNCHANGED <<store, now, op, before, result, trace, response, written, calls>>

updateEvent(event) ==
  /\ \E i \in DOMAIN state.events : state.events[i].id = event.id
  /\ state' = [state EXCEPT !.events =
                 [i \in DOMAIN @ |-> IF @[i].id = event.id THEN event ELSE @[i]]]
  /\ UNCHANGED <<store, now, op, before, result, trace, response, written, calls>>

removeEvent(eventId) ==
  /\ \E i \in DOMAIN state.events : state.events[i].id = eventId
  /\ state' = [state EXCEPT !.events = SelectSeq(@, LAMBDA e : e.id # eventId)]
  /\ UNCHANGED <<store, now, op, before, result, trace, response, written, calls>>

\* syncCalendar, syncFlightRestrictions or syncAllCalendars up to its first
\* await: the calendars to scrape, and state.events as the call finds it
syncStart(p, fn, memberId) ==
  LET calendars(eventType, members) ==
        [i \in DOMAIN members |-> [type |-> eventType, memberId |-> members[i].id]]
      school == calendars("school",
                  SelectSeq(state.familyMembers, LAMBDA m : m.schoolCalendarUrl))
      flight == calendars("flight-restriction",
                  SelectSeq(state.familyMembers, LAMBDA m : m.flightRestrictionUrl))
      todo == IF fn = "syncCalendar"
              THEN SelectSeq(school, LAMBDA c : c.memberId = memberId)
              ELSE IF fn = "syncFlightRestrictions"
              THEN SelectSeq(flight, LAMBDA c : c.memberId = memberId)
              ELSE school \o flight
  IN /\ calls[p].pc = "idle"
     /\ todo # <<>>
     /\ calls' = [calls EXCEPT ![p] =
          [fn |-> fn, pc |-> "scrape", todo |-> todo, synced |-> todo,
           currentEvents |-> state.events]]
     /\ UNCHANGED <<store, now, op, before, result, trace, response, written, state>>

\* the scrape a sync awaits returns: the next scrape starts, or the sync ends
\* with setState(prev => storage.setEvents(prev, events))
syncScraped(p, uuids) ==
  LET resume(c, events) ==
        IF Len(c.todo) = 1
        THEN /\ state' = [state EXCEPT !.events = events]
             /\ calls' = [calls EXCEPT ![p] =
                  [fn |-> "", pc |-> "idle", todo |-> <<>>, synced |-> <<>>,
                   currentEvents |-> <<>>]]
        ELSE /\ calls' = [calls EXCEPT ![p] =
                  [c EXCEPT !.todo = Tail(@), !.currentEvents = events]]
             /\ UNCHANGED state
  IN /\ calls[p].pc = "scrape"
     /\ \A i \in DOMAIN uuids :
          /\ \A j \in DOMAIN state.events : state.events[j].id # uuids[i]
          /\ \A q \in Procs : \A j \in DOMAIN calls[q].currentEvents :
               calls[q].currentEvents[j].id # uuids[i]
     /\ resume(calls[p],
               otherEvents(calls[p].currentEvents, Head(calls[p].todo).memberId,
                           Head(calls[p].todo).type)
                 \o scrapeCalendarFromUrl(Head(calls[p].todo).memberId,
                                          Head(calls[p].todo).type, uuids))
     /\ UNCHANGED <<store, now, op, before, result, trace, response, written>>

\* the scrape throws: syncCalendar and syncFlightRestrictions rethrow and set
\* nothing, syncAllCalendars logs the error and goes on with the list it has
syncFailed(p) ==
  /\ calls[p].pc = "scrape"
  /\ IF calls[p].fn = "syncAllCalendars" /\ Len(calls[p].todo) > 1
     THEN /\ calls' = [calls EXCEPT ![p] = [@ EXCEPT !.todo = Tail(@)]]
          /\ UNCHANGED state
     ELSE /\ calls' = [calls EXCEPT ![p] =
               [fn |-> "", pc |-> "idle", todo |-> <<>>, synced |-> <<>>,
                currentEvents |-> <<>>]]
          /\ state' = IF calls[p].fn = "syncAllCalendars"
                      THEN [state EXCEPT !.events = calls[p].currentEvents]
                      ELSE state
  /\ UNCHANGED <<store, now, op, before, result, trace, response, written>>

NextSync ==
  \/ \E id \in {"e1", "e2"} :
       addEvent([type |-> "school", memberId |-> "m1", source |-> "manual",
                 id |-> id, title |-> "a"])
  \/ \E id \in {"e1", "e2"} :
       updateEvent([type |-> "school", memberId |-> "m1", source |-> "manual",
                    id |-> id, title |-> "b"])
  \/ \E id \in {"e1", "e2"} : removeEvent(id)
  \/ \E p \in Procs, fn \in {"syncCalendar", "syncFlightRestrictions", "syncAllCalendars"},
        memberId \in {"m1", "m2"} : syncStart(p, fn, memberId)
  \/ \E p \in Procs, uuids \in {<<>>, <<"u1">>} : syncScraped(p, uuids)
  \/ \E p \in Procs : syncFailed(p)

SpecSync == InitSync /\ [][NextSync]_vars

-----------------------------------------------------------------------------
(* What the properties read off a state *)

PinRecordOf(st, u) ==
  IF getPinSecretName(u) \in DOMAIN st
  THEN JSONparse(st[getPinSecretName(u)].value) ELSE Undefined

LockoutRecordOf(st, u) ==
  IF getLockoutSecretName(u) \in DOMAIN st
  THEN JSONparse(st[getLockoutSecretName(u)].value) ELSE Undefined

HasPinSet(st, u) == PinRecordOf(st, u) # Undefined

IsCorrectPin(st, u, pin) ==
  /\ HasPinSet(st, u)
  /\ hashPin(pin, PinRecordOf(st, u).salt) = PinRecordOf(st, u).hash

IsWrongPin(st, u, pin) == HasPinSet(st, u) /\ ~IsCorrectPin(st, u, pin)

HasLockedUntil(st, u) ==
  /\ LockoutRecordOf(st, u) # Undefined
  /\ LockoutRecordOf(st, u).lockedUntil # Null

IsLocked(st, u, t) ==
  /\ HasLockedUntil(st, u)
  /\ t < LockoutRecordOf(st, u).lockedUntil.num

Attempts(n) == [failedAttempts |-> n, lockedUntil |-> Null]

\* the failed attempts that count at time t: none once the lockout has expired
CountedAttempts(st, u, t) ==
  IF LockoutRecordOf(st, u) = Undefined THEN 0
  ELSE IF HasLockedUntil(st, u) /\ ~IsLocked(st, u, t) THEN 0
  ELSE LockoutRecordOf(st, u).failedAttempts
Fresh == [locked |-> FALSE, attemptsLeft |-> 3]

FourToSixDigits(pin) ==
  /\ Len(pin) \in 4..6
  /\ \A i \in 1..Len(pin) : pin[i] \in {"0","1","2","3","4","5","6","7","8","9"}

Calls(name) == {i \in DOMAIN trace : trace[i].call = name}

-----------------------------------------------------------------------------
(* Properties.  `before` is the vault as the last call found it, `store`   *)
(* the vault as it left it, `now` the clock during the call.               *)

\* C1: from a user with a PIN and no LockoutRecord, three consecutive wrong
\* verifyUserPin calls return attemptsLeft 2, 1, 0; the first two are not
\* locked, the third is locked and carries an unlockTime.  Each call leaves
\* the record the next one starts from.
C1_ThreeWrongPins ==
  (op.fn = "verifyUserPin" /\ IsWrongPin(before, op.userId, op.pin)) =>
     /\ LockoutRecordOf(before, op.userId) = Undefined =>
          /\ result.valid = FALSE /\ result.locked = FALSE
          /\ result.attemptsLeft = 2
          /\ LockoutRecordOf(store, op.userId) = Attempts(1)
     /\ LockoutRecordOf(before, op.userId) = Attempts(1) =>
          /\ result.valid = FALSE /\ result.locked = FALSE
          /\ result.attemptsLeft = 1
          /\ LockoutRecordOf(store, op.userId) = Attempts(2)
     /\ LockoutRecordOf(before, op.userId) = Attempts(2) =>
          /\ result.valid = FALSE /\ result.locked = TRUE
          /\ result.attemptsLeft = 0
          /\ "date" \in DOMAIN result.unlockTime
          /\ IsLocked(store, op.userId, now)

C1_Witness ==
  /\ op.fn = "verifyUserPin"
  /\ IsWrongPin(before, op.userId, op.pin)
  /\ LockoutRecordOf(before, op.userId) = Attempts(2)
  /\ result.locked = TRUE
  /\ result.attemptsLeft = 0

\* C2: while the user is locked, verifyUserPin with any PIN returns
\* valid=false, locked=true, attemptsLeft=0 without reading the PinRecord or
\* hashing, and changes nothing in the store.
C2_LockedRejects ==
  (op.fn = "verifyUserPin" /\ IsLocked(before, op.userId, now)) =>
     /\ result.valid = FALSE
     /\ result.locked = TRUE
     /\ result.attemptsLeft = 0
     /\ \A i \in DOMAIN trace :
          trace[i].call # "hashPin" /\ trace[i].name # getPinSecretName(op.userId)
     /\ store = before

C2_Witness ==
  /\ op.fn = "verifyUserPin"
  /\ IsLocked(before, op.userId, now)
  /\ IsCorrectPin(before, op.userId, op.pin)
  /\ result.locked = TRUE

\* C3: with a lockout until t, verifyUserPin before t returns locked=true; at
\* or after t the correct PIN returns valid=true and removes the
\* LockoutRecord, and a wrong PIN returns locked=false with attemptsLeft=2.
C3_LockoutExpires ==
  (op.fn = "verifyUserPin" /\ HasLockedUntil(before, op.userId)) =>
     LET t == LockoutRecordOf(before, op.userId).lockedUntil.num
     IN /\ now < t => result.locked = TRUE
        /\ (now >= t /\ IsCorrectPin(before, op.userId, op.pin)) =>
             /\ result.valid = TRUE
             /\ LockoutRecordOf(store, op.userId) = Undefined
        /\ (now >= t /\ IsWrongPin(before, op.userId, op.pin)) =>
             /\ result.valid = FALSE
             /\ result.locked = FALSE
             /\ result.attemptsLeft = 2

C3_Witness ==
  /\ op.fn = "verifyUserPin"
  /\ HasLockedUntil(before, op.userId)
  /\ LockoutRecordOf(before, op.userId).lockedUntil.num = now
  /\ IsWrongPin(before, op.userId, op.pin)
  /\ result.locked = FALSE
  /\ result.attemptsLeft = 2

\* C4: an HTTP response carries the plaintext value of a secret only when the
\* request verified the PIN: it is the answer of getSecretWithPin after a
\* verifyUserPin that returned valid=true.
C4_PlaintextOnlyWithPin ==
  (response # Undefined /\ "value" \in DOMAIN response.body) =>
     /\ op.fn = "PUT /api/pin"
     /\ IsCorrectPin(before, op.userId, op.pin)
     /\ Calls("hashPin") # {}

\* C5: right after verifyUserPin returned valid=true, the lockout status of
\* the user is locked=false with attemptsLeft=3, whatever was recorded before.
C5_SuccessResets ==
  (op.fn = "verifyUserPin" /\ result.valid = TRUE) =>
     /\ LockoutRecordOf(store, op.userId) = Undefined
     /\ getLockoutStatus(store, NoFaults, op.userId, now).ret = Fresh

C5_Witness ==
  /\ op.fn = "verifyUserPin"
  /\ result.valid = TRUE
  /\ LockoutRecordOf(before, op.userId) = Attempts(2)

\* C6: saveUserPin with a PIN of 4 to 6 digits, from any state of the user,
\* leaves a state in which verifyUserPin with the same string returns
\* valid=true.
C6_SetThenVerify ==
  (op.fn = "saveUserPin" /\ FourToSixDigits(op.pin)) =>
     verifyUserPin(store, NoFaults, op.userId, op.pin, now).ret.valid = TRUE

C6_Witness ==
  /\ op.fn = "saveUserPin"
  /\ FourToSixDigits(op.pin)
  /\ IsLocked(before, op.userId, now)
  /\ IsWrongPin(before, op.userId, op.pin)

\* C7: after a successful saveUserPin the user has no LockoutRecord and the
\* lockout status is locked=false with attemptsLeft=3.
C7_SetPinClearsLockout ==
  (op.fn = "saveUserPin" /\ result = Undefined) =>
     /\ LockoutRecordOf(store, op.userId) = Undefined
     /\ getLockoutStatus(store, NoFaults, op.userId, now).ret = Fresh

C7_Witness ==
  /\ op.fn = "saveUserPin"
  /\ result = Undefined
  /\ IsLocked(before, op.userId, now)
  /\ HasPinSet(store, op.userId)

\* C8: saveUserPin with a string that is not 4 to 6 digits throws the format
\* error and leaves the store as it was.
C8_BadFormatRejected ==
  (op.fn = "saveUserPin" /\ ~FourToSixDigits(op.pin)) =>
     /\ result = [throw |-> "PIN must be 4-6 digits"]
     /\ store = before

C8_Witness ==
  /\ op.fn = "saveUserPin"
  /\ Len(op.pin) > 6
  /\ \A i \in DOMAIN op.pin : op.pin[i] = "1"
  /\ Threw(result)
  /\ IsLocked(store, op.userId, now)

\* C9: getSecretWithPin with a wrong PIN for a user who is not locked makes no
\* call on the requested secret, raises failedAttempts by exactly 1, and
\* returns success=false with the error, locked and attemptsLeft of
\* verifyUserPin.
C9_WrongPinNoFetch ==
  (/\ op.fn = "getSecretWithPin"
   /\ IsWrongPin(before, op.userId, op.pin)
   /\ ~IsLocked(before, op.userId, now)) =>
     LET secretName == getSecretName(op.userId, op.category, op.key)
         pinResult == verifyUserPin(before, NoFaults, op.userId, op.pin, now).ret
     IN /\ \A i \in DOMAIN trace : trace[i].name # secretName
        /\ LockoutRecordOf(store, op.userId).failedAttempts
             = CountedAttempts(before, op.userId, now) + 1
        /\ result = [success |-> FALSE, error |-> pinResult.error,
                     locked |-> pinResult.locked,
                     attemptsLeft |-> pinResult.attemptsLeft]
        /\ result.attemptsLeft = 3 - (CountedAttempts(before, op.userId, now) + 1)

C9_Witness ==
  /\ op.fn = "getSecretWithPin"
  /\ IsWrongPin(before, op.userId, op.pin)
  /\ ~IsLocked(before, op.userId, now)
  /\ getSecretName(op.userId, op.category, op.key) \in DOMAIN before
  /\ result.success = FALSE
  /\ result.attemptsLeft = 1

\* C10: getSecretWithPin with the correct PIN returns success=true and exactly
\* the value last written by saveSecret under (userId, category, key), for
\* every value saveSecret accepted; with no secret under the key it returns
\* success=false, 'Secret not found', and neither locked nor attemptsLeft.
C10_ExactValue ==
  (/\ op.fn = "getSecretWithPin"
   /\ IsCorrectPin(before, op.userId, op.pin)
   /\ ~IsLocked(before, op.userId, now)) =>
     LET last == written[<<op.userId, op.category, op.key>>]
     IN IF last = Undefined
        THEN result = [success |-> FALSE, error |-> <<"Secret not found">>]
        ELSE result = [success |-> TRUE, value |-> last.text]

\* the vault calls of the last handler that failed: the j-th vault call of the
\* trace failed when the j-th entry of the faults is TRUE
CallFailed(i) ==
  /\ trace[i].call # "hashPin"
  /\ VaultCalls(SubSeq(trace, 1, i)) <= Len(op.faults)
  /\ op.faults[VaultCalls(SubSeq(trace, 1, i))]

\* C11: verifyUserPin and getSecretWithPin never throw: also when a vault call
\* fails, the outcome is returned as a result value.
C11_NeverThrows ==
  op.fn \in {"verifyUserPin", "getSecretWithPin"} => ~Threw(result)

\* C12: no failure of the vault other than not-found is taken for absence of
\* the LockoutRecord: a failed read or delete of the record reaches the caller
\* as an error, a stored count that is neither locked-and-expired nor reset is
\* never replaced by a smaller one, and a call that reports the lockout as
\* cleared (a valid verification, a completed saveUserPin) leaves no record.
C12_FailureIsNotAbsence ==
  op.fn \in {"verifyUserPin", "getSecretWithPin", "saveUserPin"} =>
     /\ \A i \in DOMAIN trace :
          (CallFailed(i) /\ trace[i].name = getLockoutSecretName(op.userId))
             => Threw(result)
     /\ (/\ LockoutRecordOf(before, op.userId) # Undefined
         /\ LockoutRecordOf(store, op.userId) # Undefined) =>
            \/ LockoutRecordOf(store, op.userId).failedAttempts
                  >= LockoutRecordOf(before, op.userId).failedAttempts
            \/ (HasLockedUntil(before, op.userId) /\ ~IsLocked(before, op.userId, now))
     /\ (op.fn = "verifyUserPin" /\ ~Threw(result) /\ result.valid) =>
            LockoutRecordOf(store, op.userId) = Undefined
     /\ (op.fn = "saveUserPin" /\ result = Undefined) =>
            LockoutRecordOf(store, op.userId) = Undefined

\* C13: for a user with no PinRecord verifyUserPin returns valid=false,
\* locked=false and the error 'No PIN set' (not the wrong-PIN error), changes
\* nothing in the vault and creates no LockoutRecord, so that a further such
\* call finds the same state and gives the same result: no lockout follows.
C13_NoPinSet ==
  (op.fn = "verifyUserPin" /\ ~HasPinSet(before, op.userId)) =>
     /\ ~Threw(result)
     /\ result.valid = FALSE
     /\ result.locked = FALSE
     /\ result.error = <<"No PIN set">>
     /\ result.error # <<"Incorrect PIN. ", result.attemptsLeft, " attempts remaining.">>
     /\ store = before
     /\ \A i \in DOMAIN trace : trace[i].call = "getSecret"
     /\ LockoutRecordOf(store, op.userId) = Undefined
     /\ ~IsLocked(store, op.userId, now)
     /\ verifyUserPin(store, NoFaults, op.userId, op.pin, now).ret = result

C13_Witness ==
  /\ op.fn = "verifyUserPin"
  /\ ~HasPinSet(before, op.userId)
  /\ ~Threw(result)
  /\ result.error = <<"No PIN set">>
  /\ store # <<>>

\* the vault with the existence of one secret toggled: removed when it is
\* there, stored when it is not
Toggled(st, userId, category, key) ==
  IF getSecretName(userId, category, key) \in DOMAIN st
  THEN clientBeginDeleteSecret(st, getSecretName(userId, category, key))
  ELSE saveSecret(st, NoFaults, userId, category, key, <<"a","b">>).store

\* C14: as long as the PIN verification does not succeed (wrong PIN, locked
\* user, no PIN set), getSecretWithPin and PUT /api/pin answer the same, make
\* the same vault calls and leave the same lockout state whether or not the
\* requested (category, key) exists.
C14_ExistenceHidden ==
  (/\ op.fn = "getSecretWithPin"
   /\ ~(IsCorrectPin(before, op.userId, op.pin) /\ ~IsLocked(before, op.userId, now))) =>
     LET compared(other, http, otherHttp) ==
           /\ other.ret = result
           /\ other.trace = trace
           /\ LockoutRecordOf(other.store, op.userId) = LockoutRecordOf(store, op.userId)
           /\ otherHttp.response = http.response
           /\ LockoutRecordOf(otherHttp.store, op.userId) = LockoutRecordOf(http.store, op.userId)
     IN compared(getSecretWithPin(Toggled(before, op.userId, op.category, op.key),
                                  NoFaults, op.userId, op.pin, op.category, op.key, now),
                 pinPUT(before, NoFaults, op.userId, op.pin, op.category, op.key, now),
                 pinPUT(Toggled(before, op.userId, op.category, op.key),
                        NoFaults, op.userId, op.pin, op.category, op.key, now))

C14_Witness ==
  /\ op.fn = "getSecretWithPin"
  /\ IsLocked(before, op.userId, now)
  /\ getSecretName(op.userId, op.category, op.key) \in DOMAIN before
  /\ result.success = FALSE
  /\ result.locked

\* a PUT /api/pin that reached the PIN verification, and one that failed
ReachedVerification == op.fn = "PUT /api/pin" /\ trace # <<>>
ResultLocked == "locked" \in DOMAIN result /\ result.locked

\* C15 (as stated): every failed PUT /api/pin that reaches the verification
\* answers 429 exactly when the result has locked=true and 401 otherwise, with
\* a body of success=false, error, locked and attemptsLeft; a successful
\* fetch answers success=true with the value.
C15_FailureResponse ==
  ReachedVerification =>
     IF response.status # 200
     THEN /\ response.status = (IF ResultLocked THEN 429 ELSE 401)
          /\ DOMAIN response.body = {"success", "error", "locked", "attemptsLeft"}
          /\ response.body.success = FALSE
     ELSE (op.category # <<>> /\ op.key # <<>>) =>
             response.body = [success |-> TRUE, value |-> result.value]

\* C15 (amended): when the verification of a PUT /api/pin returns a failure
\* result, the status is 429 exactly when the result has locked=true and 401
\* otherwise, and the body carries success=false and the error, with locked
\* and attemptsLeft for a failure of the PIN check and without them for
\* 'Secret not found'; a successful fetch answers success=true with the value.
C15_FailureResponseAmended ==
  (ReachedVerification /\ ~Threw(result)) =>
     IF (IF "valid" \in DOMAIN result THEN ~result.valid ELSE ~result.success)
     THEN /\ response.status = (IF ResultLocked THEN 429 ELSE 401)
          /\ response.body.success = FALSE
          /\ response.body.error = result.error
          /\ IF result.error = <<"Secret not found">>
             THEN DOMAIN response.body = {"success", "error"}
             ELSE /\ DOMAIN response.body = {"success", "error", "locked", "attemptsLeft"}
                  /\ response.body.locked = result.locked
                  /\ response.body.attemptsLeft = result.attemptsLeft
     ELSE /\ response.status = 200
          /\ (op.category # <<>> /\ op.key # <<>>) =>
                response.body = [success |-> TRUE, value |-> result.value]

C15_Witness ==
  /\ ReachedVerification
  /\ ~Threw(result)
  /\ response.status = 429
  /\ response.body.locked
  /\ response.body.attemptsLeft = 0
  /\ op.key # <<>>

\* the reset events of user u in the last step: a verification with the
\* correct PIN by a user who is not locked, a saveUserPin, or a PIN-gated call
\* that finds the lockout expired
ResetEvent(u) ==
  /\ op.userId = u
  /\ \/ op.fn = "saveUserPin"
     \/ op.fn = "POST /api/pin"
     \/ /\ op.fn \in {"verifyUserPin", "getSecretWithPin", "PUT /api/pin"}
        /\ \/ IsCorrectPin(before, u, op.pin) /\ ~IsLocked(before, u, now)
           \/ HasLockedUntil(before, u) /\ ~IsLocked(before, u, now)

\* C16: a step that is no reset event of the user leaves the LockoutRecord in
\* place with a failedAttempts that is not smaller, and leaves a lockedUntil
\* that was set as it was.
C16_MonotoneUntilReset ==
  \A u \in Users :
    (LockoutRecordOf(before, u) # Undefined /\ ~ResetEvent(u)) =>
       /\ LockoutRecordOf(store, u) # Undefined
       /\ LockoutRecordOf(store, u).failedAttempts
            >= LockoutRecordOf(before, u).failedAttempts
       /\ HasLockedUntil(before, u) =>
            LockoutRecordOf(store, u).lockedUntil = LockoutRecordOf(before, u).lockedUntil

\* C17: two distinct (userId, category, key) triples of at most 127 characters
\* that are in use have distinct secret names, so that getSecret returns what
\* was last written under its own triple and no call of one user changes a
\* secret, PinRecord or LockoutRecord that carries another user's tag.
C17_NoSharing ==
  /\ \A t1, t2 \in NameTriples :
       (/\ t1 # t2
        /\ written[t1] # Undefined
        /\ written[t2] # Undefined
        /\ Len(t1[1]) + Len(t1[2]) + Len(t1[3]) + 2 <= KEY_VAULT_NAME_LIMIT
        /\ Len(t2[1]) + Len(t2[2]) + Len(t2[3]) + 2 <= KEY_VAULT_NAME_LIMIT) =>
          getSecretName(t1[1], t1[2], t1[3]) # getSecretName(t2[1], t2[2], t2[3])
  /\ op.fn = "getSecret" =>
       result = (IF written[<<op.userId, op.category, op.key>>] = Undefined
                 THEN Null ELSE written[<<op.userId, op.category, op.key>>])
  /\ \A n \in DOMAIN before :
       before[n].tags.userId # base64(op.userId) =>
          (n \in DOMAIN store /\ store[n] = before[n])

\* the concurrent calls that are over, both after a wrong PIN was counted
BothCounted(p, q) ==
  /\ p # q
  /\ calls[p].pc = "done" /\ calls[q].pc = "done"
  /\ calls[p].read # Null /\ calls[q].read # Null

\* C18: when two verifyUserPin calls with a wrong PIN have both read the same
\* failedAttempts in recordFailedAttempt and both have written, the stored
\* count is that value plus 1, not plus 2: one of the two wrong attempts is
\* lost, and both calls report the attempts left after a single failure.
C18_LostUpdate ==
  \A p, q \in Procs :
    (BothCounted(p, q) /\ calls[p].read = calls[q].read) =>
       /\ LockoutRecordOf(store, calls[p].userId).failedAttempts = calls[p].read.num + 1
       /\ calls[p].ret = calls[q].ret \/ calls[p].ret.locked \/ calls[q].ret.locked

\* both calls read failedAttempts = 1 and wrote 2: four wrong PINs have been
\* hash-compared and the user is not locked
C18_Witness ==
  /\ BothCounted(1, 2)
  /\ calls[1].read = Num(1) /\ calls[2].read = Num(1)
  /\ LockoutRecordOf(store, calls[1].userId) = Attempts(2)
  /\ calls[1].compared + calls[2].compared > MAX_PIN_ATTEMPTS
  /\ ~calls[1].ret.locked /\ ~calls[2].ret.locked

\* the last call went through recordFailedAttempt and wrote the LockoutRecord
RecordedFailure ==
  /\ op.fn \in {"verifyUserPin", "getSecretWithPin"}
  /\ \E i \in DOMAIN trace :
       trace[i].call = "setSecret" /\ trace[i].name = getLockoutSecretName(op.userId)

\* C19: the user becomes locked in the recordFailedAttempt call that brings
\* failedAttempts to 3 and in no other: a record with fewer failures has no
\* lockedUntil, no record has more than 3, and the call that writes 3 stores
\* lockedUntil = clock time + 15 minutes and returns that time as unlockTime.
C19_LockedAtThree ==
  /\ \A u \in Users :
       LockoutRecordOf(store, u) # Undefined =>
          /\ LockoutRecordOf(store, u).failedAttempts \in 1..3
          /\ HasLockedUntil(store, u) <=> LockoutRecordOf(store, u).failedAttempts = 3
  /\ \A u \in Users :
       (~IsLocked(before, u, now) /\ IsLocked(store, u, now)) =>
          /\ RecordedFailure
          /\ op.userId = u
          /\ CountedAttempts(before, u, now) = 2
  /\ RecordedFailure =>
       IF LockoutRecordOf(store, op.userId).failedAttempts = 3
       THEN /\ LockoutRecordOf(store, op.userId).lockedUntil = Num(now + 15 * 60 * 1000)
            /\ result.locked
            /\ result.attemptsLeft = 0
            /\ op.fn = "verifyUserPin" => result.unlockTime = Date(Num(now + 15 * 60 * 1000))
       ELSE /\ LockoutRecordOf(store, op.userId).lockedUntil = Null
            /\ ~result.locked
            /\ CountedAttempts(before, op.userId, now) < 2

C19_Witness ==
  /\ RecordedFailure
  /\ op.fn = "verifyUserPin"
  /\ now > 0
  /\ LockoutRecordOf(before, op.userId) = Attempts(2)
  /\ LockoutRecordOf(store, op.userId).failedAttempts = 3
  /\ result.unlockTime = Date(Num(now + 15 * 60 * 1000))

\* C20: a verification request whose PIN string is not 4 to 6 digits, through
\* verifyUserPin, getSecretWithPin or PUT /api/pin, leaves the counted failed
\* attempts as they were and does not lock the user.
C20_BadFormatKeepsBudget ==
  (op.fn \in {"verifyUserPin", "getSecretWithPin"} /\ ~FourToSixDigits(op.pin)) =>
     LET unchanged(st) ==
           /\ CountedAttempts(st, op.userId, now) = CountedAttempts(before, op.userId, now)
           /\ IsLocked(st, op.userId, now) = IsLocked(before, op.userId, now)
     IN /\ unchanged(store)
        /\ unchanged(pinPUT(before, NoFaults, op.userId, op.pin, op.category, op.key, now).store)

\* C21: deleteSecret completes without an error also when there is no secret
\* under (userId, category, key), and a second call right after the first
\* completes as well and leaves the vault as the first call left it.
C21_DeleteIdempotent ==
  op.fn = "deleteSecret" =>
     LET again(out) == ~Threw(out.ret) /\ out.store = store
     IN /\ ~Threw(result)
        /\ getSecretName(op.userId, op.category, op.key) \notin DOMAIN store
        /\ again(deleteSecret(store, NoFaults, op.userId, op.category, op.key))

\* C22: on every vault the program reaches, with or without a LockoutRecord,
\* clearUserLockout completes without an error and leaves no LockoutRecord
\* and every other entry (PinRecord, secrets) as it was; a second call right
\* after changes nothing more.  A verification with the correct PIN, which
\* calls it, leaves the vault as it found it except for the LockoutRecord.
C22_ClearIdempotent ==
  /\ \A u \in Users :
       LET twice(once, again) ==
             /\ once.ret = Undefined /\ again.ret = Undefined
             /\ LockoutRecordOf(once.store, u) = Undefined
             /\ DOMAIN once.store = DOMAIN store \ {getLockoutSecretName(u)}
             /\ \A n \in DOMAIN once.store : once.store[n] = store[n]
             /\ again.store = once.store
       IN twice(clearUserLockout(store, NoFaults, u),
                clearUserLockout(clearUserLockout(store, NoFaults, u).store, NoFaults, u))
  /\ (op.fn = "verifyUserPin" /\ result.valid) =>
       /\ \E i \in DOMAIN trace : trace[i] = Del(before, getLockoutSecretName(op.userId))
       /\ LockoutRecordOf(store, op.userId) = Undefined
       /\ DOMAIN store = DOMAIN before \ {getLockoutSecretName(op.userId)}
       /\ \A n \in DOMAIN store : store[n] = before[n]

\* a correct PIN from a user without LockoutRecord: the delete finds nothing
C22_Witness ==
  /\ op.fn = "verifyUserPin"
  /\ result.valid
  /\ LockoutRecordOf(before, op.userId) = Undefined
  /\ trace[Len(trace)] = Del(before, getLockoutSecretName(op.userId))
  /\ getSecretName(op.userId, financial, <<"i","d">>) \in DOMAIN store

\* C23: getSecret returns null exactly when the vault holds no secret under
\* the name, and hasUserPin returns true when the PinRecord exists and false
\* when it does not; a vault failure other than not-found leaves both as an
\* exception.
C23_NullOnlyWhenAbsent ==
  /\ op.fn = "getSecret" =>
       (result = Null <=> getSecretName(op.userId, op.category, op.key) \notin DOMAIN before)
  /\ op.fn = "hasUserPin" =>
       result = Bool(getPinSecretName(op.userId) \in DOMAIN before)
  /\ \A u \in Users, c \in CategoryInputs, k \in Keys :
       /\ getSecret(store, <<TRUE>>, u, c, k).ret = Throw(ServiceUnavailable)
       /\ hasUserPin(store, <<TRUE>>, u).ret = Throw(ServiceUnavailable)

\* a request of a signed-in user that names a category outside the enum
InvalidCategoryRequest ==
  /\ op.fn \in {"PUT /api/pin", "POST /api/secure-info", "PUT /api/secure-info",
                "DELETE /api/secure-info"}
  /\ op.userId # NoSession
  /\ op.category # <<>>
  /\ ~(op.category \in {financial, identity, medical})

C25_RecordInRange ==
  /\ \A u \in Users :
       LockoutRecordOf(store, u) # Undefined =>
          /\ LockoutRecordOf(store, u).failedAttempts \in 1..3
          /\ HasLockedUntil(store, u) <=> LockoutRecordOf(store, u).failedAttempts = 3
  /\ \A p \in DOMAIN calls :
       calls[p].pc = "done" => calls[p].ret.attemptsLeft \in 0..3

\* C26: under every interleaving, the step in which a verifyUserPin call
\* clears the lockout and returns valid=true is never taken while the stored
\* LockoutRecord of the user is locked: a success neither answers during a
\* lockout nor removes a lockout that another request has set meanwhile.
C26_NoSuccessWhileLocked ==
  [][\A p \in Procs :
       (calls[p].pc = "clearUserLockout" /\ calls'[p].pc = "done" /\ calls'[p].ret.valid)
          => ~IsLocked(store, calls[p].userId, now)]_vars

\* C27: once saveUserPin(user, p2) has succeeded, verifyUserPin accepts p2 and
\* no other PIN string, whatever was set before; no other call changes the
\* PinRecord, and a verification is valid only for the PIN the record holds.
C27_OnlyLatestPin ==
  /\ (op.fn = "saveUserPin" /\ result = Undefined) =>
       /\ IsCorrectPin(store, op.userId, op.pin)
       /\ verifyUserPin(store, NoFaults, op.userId, op.pin, now).ret.valid
       /\ \A p1 \in PinInputs :
            p1 # op.pin => ~verifyUserPin(store, NoFaults, op.userId, p1, now).ret.valid
  /\ \A u \in Users :
       (op.fn # "saveUserPin" \/ op.userId # u) => PinRecordOf(store, u) = PinRecordOf(before, u)
  /\ (op.fn = "verifyUserPin" /\ result.valid) => IsCorrectPin(before, op.userId, op.pin)

\* the PIN is changed: the PIN that verified before does so no longer
C27_Witness ==
  /\ op.fn = "saveUserPin"
  /\ result = Undefined
  /\ \E p1 \in PinInputs :
       /\ p1 # op.pin
       /\ IsCorrectPin(before, op.userId, p1)
       /\ ~verifyUserPin(store, NoFaults, op.userId, p1, now).ret.valid

\* C28: every entry of the masked listing of a non-empty secret carries a
\* masked value that differs from the stored value and does not contain the
\* stored value as a substring.
C28_MaskHidesValue ==
  op.fn = "getSecretsMasked" =>
     \A i \in DOMAIN result.array :
        LET hides(masked, value) ==
              value.text # <<>> =>
                 (masked # value.text /\ ~includes(masked, value.text))
        IN hides(result.array[i].maskedValue,
                 before[getSecretName(op.userId, result.array[i].category,
                                      result.array[i].key)].value)

\* C29: in every reachable state a user with a LockoutRecord has a PinRecord,
\* a PinRecord that exists before a call exists after it, and hasUserPin
\* answers whether the PinRecord exists; so hasUserPin, once true, stays true.
C29_PinRecordStays ==
  /\ \A u \in Users \cup NameUsers \cup {SharedUser} :
       /\ LockoutRecordOf(store, u) # Undefined => HasPinSet(store, u)
       /\ HasPinSet(before, u) => HasPinSet(store, u)
  /\ op.fn = "hasUserPin" => result = Bool(HasPinSet(store, op.userId))

\* C30: a sync that completes changes only the scraped events of the members
\* and types it synced: every other event of the client state, those added or
\* updated while the sync waited for its scrape included, is there after the
\* sync as it was before, and an event removed meanwhile stays removed.
C30_EditsSurviveSync ==
  [][\A p \in Procs :
       LET kept(events) ==
             SelectSeq(events,
               LAMBDA e : ~(/\ e.source = "scraped"
                            /\ \E i \in DOMAIN calls[p].synced :
                                 /\ calls[p].synced[i].memberId = e.memberId
                                 /\ calls[p].synced[i].type = e.type))
       IN (calls[p].pc = "scrape" /\ calls'[p].pc = "idle")
             => kept(state'.events) = kept(state.events)]_vars

====
